---- MODULE Spec2Model ----
(***************************************************************************)
(* Pharmacy backend: the Medicine, Sale and TransferHistory collections    *)
(* and the request handlers that mutate them (record / edit / delete a     *)
(* sale, delete a medicine, transfer stock between clinics).  Every        *)
(* handler is a process that advances one awaited database operation at a  *)
(* time, so that concurrent requests interleave exactly at the awaits.     *)
(***************************************************************************)
EXTENDS Integers, Sequences, FiniteSets, TLC

\* ------------------------------------------------------------------ bounds
MaxRequests == 2     \* requests served in a run; they may all be in flight together
MaxQty == 2          \* largest requested quantity, and the stock of medicine 1 at start
MaxRate == 2         \* largest selling rate in a request

\* The medicines and the sale that exist at the start; a request creates at
\* most one document of either kind.
FirstMeds == {1, 2}
FirstSales == {1}

Procs == 1..MaxRequests
MedIds == 1..(Cardinality(FirstMeds) + MaxRequests)
SaleIds == 1..(Cardinality(FirstSales) + MaxRequests)

\* ------------------------------------------------------- values and inputs
\* A request field that is absent: `undefined` (for an id), and the NaN that
\* arithmetic on `undefined` yields (for a number).
NoId == 0
NaN == -999

Names == {"Panadol", "Brufen"}
RecordNames == {"Panadol"}      \* medicineName sent with a new sale
EditNames == {"Brufen"}         \* medicineName sent with an edit that names a medicine
ClinicA == <<"A">>
ClinicB == <<"B">>
\* The label the clinics endpoint emits for a clinic with workers.
Annotated(c) == c \o <<" ", "(", "w", ")">>
\* A clinic label the request body does not carry (`undefined`).
Missing == <<"undefined">>
FromLabels == {ClinicA, Annotated(ClinicA), Missing}
ToLabels == {ClinicA, ClinicB, Annotated(ClinicB)}

\* Ids a request may name: those present at the start and the next one.
ReqMedIds == 1..(Cardinality(FirstMeds) + 1)
ReqSaleIds == 1..(Cardinality(FirstSales) + 1)
\* A transfer record is named by its place in the history.
ReqTransferIds == 1..MaxRequests
SaleQtys == (-1)..MaxQty
TransferQtys == {NaN} \cup SaleQtys
Rates == {NaN} \cup (1..MaxRate)

NoDoc == [live |-> FALSE]

\* ------------------------------------------------------------------- state
VARIABLES medicines,   \* Medicine collection: id -> document or NoDoc
          sales,       \* Sale collection: id -> document or NoDoc
          transfers,   \* TransferHistory collection, in insertion order
          medSeq,      \* Medicine ids allocated so far
          saleSeq,     \* Sale ids allocated so far
          users,       \* User collection, in insertion order
          procs        \* the requests: procs[i] is the i-th request to arrive

vars == <<medicines, sales, transfers, medSeq, saleSeq, users, procs>>

\* ---------------------------------------------------------------- schemas
\* medicineSchema: quantity has min 0, checked whenever a document is saved.
\* (Mutant: the schema without its min.)
ValidMedicineNoMin(doc) == doc.quantity # NaN
ValidMedicine(doc) == doc.quantity # NaN /\ doc.quantity >= 0

\* SaleSchema: quantity, rate and total are required Numbers.
ValidSale(doc) == doc.quantity # NaN /\ doc.rate # NaN /\ doc.total # NaN

\* JavaScript `a * b` on Numbers, undefined operands giving NaN.
Times(a, b) == IF a = NaN \/ b = NaN THEN NaN ELSE a * b

\* ------------------------------------------------------- request handlers
NoBody == [saleId |-> NoId, medicineId |-> NoId, medicineName |-> "",
           quantity |-> 0, rate |-> NaN, fromClinic |-> <<>>, toClinic |-> <<>>,
           transferId |-> NoId]

NoMeds == [i \in MedIds |-> NoDoc]
NoSales == [i \in SaleIds |-> NoDoc]
NoPre == [medicines |-> NoMeds, sales |-> NoSales, transfers |-> <<>>, users |-> <<>>]
Snapshot == [medicines |-> medicines, sales |-> sales, transfers |-> transfers,
             users |-> users]

IdleProc == [op |-> "none", pc |-> "idle", status |-> 0, body |-> NoBody,
             sale |-> NoDoc, medicine |-> NoDoc, newMed |-> NoDoc,
             saleId |-> NoId, toId |-> NoId,
             tx |-> "none", snap |-> NoMeds, writes |-> NoMeds,
             \* history, read by the properties only: the database as the
             \* request found it, the requests in flight when it arrived,
             \* and the requests that took a step while it was in flight
             pre |-> NoPre, before |-> {}, ovl |-> {}]

\* A handler is over once it has answered ("done") or died of an error no
\* catch block handles, which leaves the request unanswered ("crashed").
Active(q) == procs[q].pc \notin {"idle", "done", "crashed"}

\* The next request to arrive is the p-th.
Arrives(p) ==
    /\ procs[p].pc = "idle"
    /\ \A q \in Procs : q < p => procs[q].pc # "idle"

Running(p, op, pc) == procs[p].op = op /\ procs[p].pc = pc

\* A new request: its body, the database as it finds it, the requests in flight.
Begin(op, body) ==
    [IdleProc EXCEPT !.op = op, !.body = body, !.pre = Snapshot,
                     !.before = {q \in Procs : Active(q)}]

\* Process p takes a step to `rec`; every request in flight notes that p ran.
Go(p, rec) ==
    procs' = [q \in Procs |->
                IF q = p THEN rec
                ELSE IF Active(q) THEN [procs[q] EXCEPT !.ovl = @ \cup {p}]
                ELSE procs[q]]

\* The handler answers with `status`.
End(p, rec, status) == Go(p, [rec EXCEPT !.pc = "done", !.status = status])

\* A document a transaction in flight has written is locked: a write from
\* outside the transaction waits until the transaction ends.
Locked(id) == \E q \in Procs : procs[q].tx = "active" /\ procs[q].writes[id].live

\* doc.save() of a loaded Medicine outside a transaction, after its quantity
\* was assigned `delta` away from the loaded value: validation, then nothing
\* to send when the value is the same, else $set of the quantity on the
\* stored document.  "ok", "clean", or the error thrown.
SaveOutcome(id, doc, delta) ==
    IF ~ValidMedicine(doc) THEN "invalid"
    ELSE IF delta = 0 THEN "clean"
    ELSE IF ~medicines[id].live THEN "notfound"
    ELSE "ok"

SaveMedicine(id, doc, delta) ==
    IF SaveOutcome(id, doc, delta) = "ok"
    THEN medicines' = [medicines EXCEPT ![id].quantity = doc.quantity]
    ELSE UNCHANGED medicines

Saved(id, doc, delta) == SaveOutcome(id, doc, delta) \in {"ok", "clean"}

Init ==
    /\ medicines = [i \in MedIds |->
            CASE i = 1 -> [live |-> TRUE, name |-> "Panadol", clinic |-> ClinicA,
                           quantity |-> MaxQty, purchasePrice |-> 1]
              [] i = 2 -> [live |-> TRUE, name |-> "Brufen", clinic |-> ClinicB,
                           quantity |-> 1, purchasePrice |-> 1]
              [] OTHER -> NoDoc]
    /\ sales = [i \in SaleIds |->
            IF i = 1 THEN [live |-> TRUE, medicine |-> 1, medicineName |-> "Panadol",
                           quantity |-> 1, rate |-> 1, total |-> 1]
            ELSE NoDoc]
    /\ transfers = <<>>
    /\ medSeq = Cardinality(FirstMeds)
    /\ saleSeq = Cardinality(FirstSales)
    /\ users = <<>>
    /\ procs = [p \in Procs |-> IdleProc]

\* ------------------------------------------------- POST /api/sales (record)
\* (Mutant: the stock check left out.)
RecordSaleStartNoStockCheck(p) ==
    /\ Arrives(p)
    /\ \E mid \in ReqMedIds, nm \in RecordNames, qty \in SaleQtys, rate \in Rates :
         LET b == [NoBody EXCEPT !.medicineId = mid, !.medicineName = nm,
                                 !.quantity = qty, !.rate = rate]
             r == Begin("recordSale", b)
             m == medicines[mid]
         IN  IF ~m.live THEN End(p, r, 404)
             ELSE Go(p, [r EXCEPT !.pc = "saveMedicine",
                                  !.medicine = [m EXCEPT !.quantity = @ - qty]])
    /\ UNCHANGED <<medicines, sales, transfers, medSeq, saleSeq, users>>

\* findById, the two early returns, and the in-memory decrement.
RecordSaleStart(p) ==
    /\ Arrives(p)
    /\ \E mid \in ReqMedIds, nm \in RecordNames, qty \in SaleQtys, rate \in Rates :
         LET b == [NoBody EXCEPT !.medicineId = mid, !.medicineName = nm,
                                 !.quantity = qty, !.rate = rate]
             r == Begin("recordSale", b)
             m == medicines[mid]
         IN  IF ~m.live THEN End(p, r, 404)
             ELSE IF m.quantity < qty THEN End(p, r, 400)
             ELSE Go(p, [r EXCEPT !.pc = "saveMedicine",
                                  !.medicine = [m EXCEPT !.quantity = @ - qty]])
    /\ UNCHANGED <<medicines, sales, transfers, medSeq, saleSeq, users>>

\* await medicine.save()
RecordSaleSaveMedicine(p) ==
    LET r == procs[p]
        id == r.body.medicineId
    IN  /\ Running(p, "recordSale", "saveMedicine")
        /\ ~Locked(id)
        /\ SaveMedicine(id, r.medicine, r.body.quantity)
        /\ IF Saved(id, r.medicine, r.body.quantity)
           THEN Go(p, [r EXCEPT !.pc = "saveSale"])
           ELSE End(p, r, 500)
        /\ UNCHANGED <<sales, transfers, medSeq, saleSeq, users>>

\* new Sale({...}); await sale.save(); 201
RecordSaleSaveSale(p) ==
    LET r == procs[p]
        b == r.body
        doc == [live |-> TRUE, medicine |-> b.medicineId, medicineName |-> b.medicineName,
                quantity |-> b.quantity, rate |-> b.rate,
                total |-> Times(b.quantity, b.rate)]
        id == saleSeq + 1
    IN  /\ Running(p, "recordSale", "saveSale")
        /\ IF ValidSale(doc)
           THEN /\ sales' = [sales EXCEPT ![id] = doc]
                /\ saleSeq' = id
                /\ End(p, [r EXCEPT !.saleId = id, !.sale = doc], 201)
           ELSE /\ UNCHANGED <<sales, saleSeq>>
                /\ End(p, r, 500)
        /\ UNCHANGED <<medicines, transfers, medSeq, users>>

\* ------------------------------------------- DELETE /api/sales/:id (delete)
\* Sale.findById and the 404.
DeleteSaleStart(p) ==
    /\ Arrives(p)
    /\ \E sid \in ReqSaleIds :
         LET r == Begin("deleteSale", [NoBody EXCEPT !.saleId = sid])
         IN  IF ~sales[sid].live THEN End(p, r, 404)
             ELSE Go(p, [r EXCEPT !.pc = "findMedicine", !.sale = sales[sid]])
    /\ UNCHANGED <<medicines, sales, transfers, medSeq, saleSeq, users>>

\* (Mutant: the quantity is not added back.)
DeleteSaleFindMedicineNoRestore(p) ==
    LET r == procs[p]
        m == medicines[r.sale.medicine]
    IN  /\ Running(p, "deleteSale", "findMedicine")
        /\ IF m.live
           THEN Go(p, [r EXCEPT !.pc = "saveMedicine", !.medicine = m])
           ELSE Go(p, [r EXCEPT !.pc = "delete"])
        /\ UNCHANGED <<medicines, sales, transfers, medSeq, saleSeq, users>>

\* (Mutant: a sale whose medicine is gone is an error.)
DeleteSaleFindMedicineStrict(p) ==
    LET r == procs[p]
        m == medicines[r.sale.medicine]
    IN  /\ Running(p, "deleteSale", "findMedicine")
        /\ IF m.live
           THEN Go(p, [r EXCEPT !.pc = "saveMedicine",
                                !.medicine = [m EXCEPT !.quantity = @ + r.sale.quantity]])
           ELSE End(p, r, 500)
        /\ UNCHANGED <<medicines, sales, transfers, medSeq, saleSeq, users>>

\* Medicine.findById(sale.medicine) and the in-memory restoration.
DeleteSaleFindMedicine(p) ==
    LET r == procs[p]
        m == medicines[r.sale.medicine]
    IN  /\ Running(p, "deleteSale", "findMedicine")
        /\ IF m.live
           THEN Go(p, [r EXCEPT !.pc = "saveMedicine",
                                !.medicine = [m EXCEPT !.quantity = @ + r.sale.quantity]])
           ELSE Go(p, [r EXCEPT !.pc = "delete"])
        /\ UNCHANGED <<medicines, sales, transfers, medSeq, saleSeq, users>>

\* await medicine.save()
DeleteSaleSaveMedicine(p) ==
    LET r == procs[p]
        id == r.sale.medicine
    IN  /\ Running(p, "deleteSale", "saveMedicine")
        /\ ~Locked(id)
        /\ SaveMedicine(id, r.medicine, r.sale.quantity)
        /\ IF Saved(id, r.medicine, r.sale.quantity)
           THEN Go(p, [r EXCEPT !.pc = "delete"])
           ELSE End(p, r, 500)
        /\ UNCHANGED <<sales, transfers, medSeq, saleSeq, users>>

\* await Sale.findByIdAndDelete(id); 200 whether or not it was still there.
DeleteSaleDelete(p) ==
    LET r == procs[p]
    IN  /\ Running(p, "deleteSale", "delete")
        /\ sales' = [sales EXCEPT ![r.body.saleId] = NoDoc]
        /\ End(p, r, 200)
        /\ UNCHANGED <<medicines, transfers, medSeq, saleSeq, users>>

\* ---------------------------------------------- PUT /api/sales/:id (edit)
\* `medicineId && medicineId !== String(sale.medicine)`
MedicineChanged(r) == r.body.medicineId # NoId /\ r.body.medicineId # r.sale.medicine

\* (Mutant: the same medicine is not decremented again.)
AfterRestoreNoDecrement(r) ==
    IF MedicineChanged(r) THEN [r EXCEPT !.pc = "findNew"]
    ELSE IF r.medicine.live THEN [r EXCEPT !.pc = "saveSame"]
    ELSE [r EXCEPT !.pc = "saveSale"]

\* Where the handler goes once the old medicine's stock is restored (or the
\* old medicine is gone): the new medicine's lookup, the same medicine's
\* decrement, or straight to the sale.
AfterRestore(r) ==
    IF MedicineChanged(r) THEN [r EXCEPT !.pc = "findNew"]
    ELSE IF r.medicine.live
         THEN [r EXCEPT !.pc = "saveSame", !.medicine.quantity = @ - r.body.quantity]
         ELSE [r EXCEPT !.pc = "saveSale"]

\* Sale.findById and the 404.
EditSaleStart(p) ==
    /\ Arrives(p)
    /\ \E sid \in ReqSaleIds, mid \in {NoId} \cup ReqMedIds, nm \in EditNames,
          qty \in SaleQtys, rate \in Rates :
         LET b == [NoBody EXCEPT !.saleId = sid, !.medicineId = mid,
                                 !.medicineName = IF mid = NoId THEN "" ELSE nm,
                                 !.quantity = qty, !.rate = rate]
             r == Begin("editSale", b)
         IN  IF ~sales[sid].live THEN End(p, r, 404)
             ELSE Go(p, [r EXCEPT !.pc = "findMedicine", !.sale = sales[sid]])
    /\ UNCHANGED <<medicines, sales, transfers, medSeq, saleSeq, users>>

\* (Mutant: the old quantity is not given back before the new one is taken.)
EditSaleFindMedicineNoRestore(p) ==
    LET r == procs[p]
        m == medicines[r.sale.medicine]
    IN  /\ Running(p, "editSale", "findMedicine")
        /\ Go(p, AfterRestore([r EXCEPT !.medicine = m]))
        /\ UNCHANGED <<medicines, sales, transfers, medSeq, saleSeq, users>>

\* Medicine.findById(sale.medicine) and the in-memory restoration.
EditSaleFindMedicine(p) ==
    LET r == procs[p]
        m == medicines[r.sale.medicine]
    IN  /\ Running(p, "editSale", "findMedicine")
        /\ IF m.live
           THEN Go(p, [r EXCEPT !.pc = "restore",
                                !.medicine = [m EXCEPT !.quantity = @ + r.sale.quantity]])
           ELSE Go(p, AfterRestore(r))
        /\ UNCHANGED <<medicines, sales, transfers, medSeq, saleSeq, users>>

\* await medicine.save() of the restored quantity.
EditSaleRestore(p) ==
    LET r == procs[p]
        id == r.sale.medicine
    IN  /\ Running(p, "editSale", "restore")
        /\ ~Locked(id)
        /\ SaveMedicine(id, r.medicine, r.sale.quantity)
        /\ IF Saved(id, r.medicine, r.sale.quantity)
           THEN Go(p, AfterRestore(r))
           ELSE End(p, r, 500)
        /\ UNCHANGED <<sales, transfers, medSeq, saleSeq, users>>

\* Medicine.findById(medicineId), the 404, and the in-memory decrement.
EditSaleFindNew(p) ==
    LET r == procs[p]
        m == medicines[r.body.medicineId]
    IN  /\ Running(p, "editSale", "findNew")
        /\ IF m.live
           THEN Go(p, [r EXCEPT !.pc = "saveNew",
                                !.newMed = [m EXCEPT !.quantity = @ - r.body.quantity]])
           ELSE End(p, r, 404)
        /\ UNCHANGED <<medicines, sales, transfers, medSeq, saleSeq, users>>

\* await newMed.save()
EditSaleSaveNew(p) ==
    LET r == procs[p]
        id == r.body.medicineId
    IN  /\ Running(p, "editSale", "saveNew")
        /\ ~Locked(id)
        /\ SaveMedicine(id, r.newMed, r.body.quantity)
        /\ IF Saved(id, r.newMed, r.body.quantity)
           THEN Go(p, [r EXCEPT !.pc = "saveSale"])
           ELSE End(p, r, 500)
        /\ UNCHANGED <<sales, transfers, medSeq, saleSeq, users>>

\* await medicine.save() of the same medicine's decrement.
EditSaleSaveSame(p) ==
    LET r == procs[p]
        id == r.sale.medicine
    IN  /\ Running(p, "editSale", "saveSame")
        /\ ~Locked(id)
        /\ SaveMedicine(id, r.medicine, r.body.quantity)
        /\ IF Saved(id, r.medicine, r.body.quantity)
           THEN Go(p, [r EXCEPT !.pc = "saveSale"])
           ELSE End(p, r, 500)
        /\ UNCHANGED <<sales, transfers, medSeq, saleSeq, users>>

\* (Mutant: the sale keeps its reference to the old medicine.)
EditedSaleKeepsReference(r) ==
    [r.sale EXCEPT !.quantity = r.body.quantity, !.rate = r.body.rate,
                   !.total = Times(r.body.quantity, r.body.rate)]

\* The sale document as the handler has assigned it before sale.save().
EditedSale(r) ==
    LET b == r.body
        s == [r.sale EXCEPT !.quantity = b.quantity, !.rate = b.rate,
                            !.total = Times(b.quantity, b.rate)]
    IN  IF r.newMed.live
        THEN [s EXCEPT !.medicine = b.medicineId, !.medicineName = b.medicineName]
        ELSE s

SaleFields == {"medicine", "medicineName", "quantity", "rate", "total"}

\* The paths sale.save() sends: those assigned a value other than the loaded one.
ModifiedPaths(loaded, edited) == {f \in SaleFields : edited[f] # loaded[f]}

\* updateOne({_id}, {$set: the modified paths}) on the stored document.
SetPaths(stored, edited, paths) ==
    [f \in DOMAIN stored |-> IF f \in paths THEN edited[f] ELSE stored[f]]

\* await sale.save(); 200
EditSaleSaveSale(p) ==
    LET r == procs[p]
        id == r.body.saleId
        doc == EditedSale(r)
        paths == ModifiedPaths(r.sale, doc)
    IN  /\ Running(p, "editSale", "saveSale")
        /\ IF ~ValidSale(doc) THEN UNCHANGED sales /\ End(p, r, 500)
           ELSE IF paths = {} THEN UNCHANGED sales /\ End(p, r, 200)
           ELSE IF ~sales[id].live THEN UNCHANGED sales /\ End(p, r, 500)
           ELSE /\ sales' = [sales EXCEPT ![id] = SetPaths(@, doc, paths)]
                /\ End(p, r, 200)
        /\ UNCHANGED <<medicines, transfers, medSeq, saleSeq, users>>

\* ------------------------------------- DELETE /api/medicines/:id (delete)
\* Medicine.findByIdAndDelete and the 404, one atomic operation.
DeleteMedicine(p) ==
    /\ Arrives(p)
    /\ \E mid \in ReqMedIds :
         LET r == Begin("deleteMedicine", [NoBody EXCEPT !.medicineId = mid])
         IN  /\ ~Locked(mid)
             /\ IF medicines[mid].live
                THEN medicines' = [medicines EXCEPT ![mid] = NoDoc] /\ End(p, r, 200)
                ELSE UNCHANGED medicines /\ End(p, r, 404)
    /\ UNCHANGED <<sales, transfers, medSeq, saleSeq, users>>

\* ------------------------------------- POST /api/medicines/transfer
\* label.split(' (')[0]: the text before the first " (".
SepAt(s, i) == i + 1 <= Len(s) /\ s[i] = " " /\ s[i + 1] = "("
FirstSep(s) ==
    IF \E i \in 1..Len(s) : SepAt(s, i)
    THEN CHOOSE i \in 1..Len(s) : SepAt(s, i) /\ \A j \in 1..(i - 1) : ~SepAt(s, j)
    ELSE 0
\* (Mutant: the label is used whole.)
WholeLabel(s) == s
ClinicName(s) == IF FirstSep(s) = 0 THEN s ELSE SubSeq(s, 1, FirstSep(s) - 1)

\* The first guard: a falsy field or a quantity that is not positive.
InvalidTransfer(b) ==
    \/ ClinicName(b.fromClinic) = <<>> \/ ClinicName(b.toClinic) = <<>>
    \/ b.medicineId = NoId \/ b.medicineName = ""
    \/ b.quantity = NaN \/ b.quantity = 0 \/ b.quantity <= 0

\* The handler's error path: the catch block awaits abortTransaction.
Throw(r) == [r EXCEPT !.pc = "abort"]

\* Another transaction in flight has written the document.
WrittenByOther(p, id) ==
    \E q \in Procs \ {p} : procs[q].tx = "active" /\ procs[q].writes[id].live

\* A write inside the transaction conflicts when the document was written
\* after the transaction's snapshot was taken, or by another open transaction.
WriteConflict(p, id) ==
    medicines[id] # procs[p].snap[id] \/ WrittenByOther(p, id)

\* What the transaction reads: its snapshot, overlaid with its own writes.
TxView(r) == [i \in MedIds |-> IF r.writes[i].live THEN r.writes[i] ELSE r.snap[i]]

\* The body is destructured and split, the guards run, the session and the
\* transaction start, and the source is read: findOne({_id, clinic}).
TransferStart(p) ==
    /\ Arrives(p)
    /\ \E from \in FromLabels, to \in ToLabels, mid \in {NoId} \cup FirstMeds,
          nm \in {""} \cup Names, qty \in TransferQtys :
         LET b == [NoBody EXCEPT !.fromClinic = from, !.toClinic = to,
                                 !.medicineId = mid, !.medicineName = nm,
                                 !.quantity = qty]
             r == Begin("transfer", b)
             m == medicines[mid]
             t == [r EXCEPT !.tx = "active", !.snap = medicines]
         IN  IF from = Missing \/ to = Missing
             THEN Go(p, [r EXCEPT !.pc = "crashed"])
             ELSE IF InvalidTransfer(b) THEN End(p, r, 400)
             ELSE IF ClinicName(from) = ClinicName(to) THEN End(p, r, 400)
             ELSE IF ~(m.live /\ m.clinic = ClinicName(from)) THEN Go(p, Throw(t))
             ELSE IF m.quantity < qty THEN Go(p, Throw(t))
             ELSE Go(p, [t EXCEPT !.pc = "saveFrom",
                                  !.medicine = [m EXCEPT !.quantity = @ - qty]])
    /\ UNCHANGED <<medicines, sales, transfers, medSeq, saleSeq, users>>

\* (Mutant: fromMed.save() without the session, so outside the transaction.)
TransferSaveFromNoSession(p) ==
    LET r == procs[p]
        id == r.body.medicineId
    IN  /\ Running(p, "transfer", "saveFrom")
        /\ ~Locked(id)
        /\ SaveMedicine(id, r.medicine, r.body.quantity)
        /\ IF Saved(id, r.medicine, r.body.quantity)
           THEN Go(p, [r EXCEPT !.pc = "findTo"])
           ELSE Go(p, Throw(r))
        /\ UNCHANGED <<sales, transfers, medSeq, saleSeq, users>>

\* await fromMed.save({ session })
TransferSaveFrom(p) ==
    LET r == procs[p]
        id == r.body.medicineId
    IN  /\ Running(p, "transfer", "saveFrom")
        /\ IF ~ValidMedicine(r.medicine) \/ WriteConflict(p, id)
           THEN Go(p, Throw(r))
           ELSE Go(p, [r EXCEPT !.pc = "findTo", !.writes[id] = r.medicine])
        /\ UNCHANGED <<medicines, sales, transfers, medSeq, saleSeq, users>>

\* (Mutant: the destination's quantity is assigned, not incremented.)
TransferFindToAssign(p) ==
    LET r == procs[p]
        b == r.body
        view == TxView(r)
        found == {i \in MedIds : /\ view[i].live
                                 /\ view[i].name = b.medicineName
                                 /\ view[i].clinic = ClinicName(b.toClinic)}
        first == CHOOSE i \in found : \A j \in found : i <= j
    IN  /\ Running(p, "transfer", "findTo")
        /\ IF found # {}
           THEN Go(p, [r EXCEPT !.pc = "saveTo", !.toId = first,
                                !.newMed = [view[first] EXCEPT !.quantity = b.quantity]])
           ELSE Go(p, [r EXCEPT !.pc = "insertTo",
                                !.newMed = [live |-> TRUE, name |-> r.medicine.name,
                                            clinic |-> ClinicName(b.toClinic),
                                            quantity |-> b.quantity,
                                            purchasePrice |-> r.medicine.purchasePrice]])
        /\ UNCHANGED <<medicines, sales, transfers, medSeq, saleSeq, users>>

\* (Mutant: the destination is looked up by clinic alone.)
TransferFindToByClinic(p) ==
    LET r == procs[p]
        b == r.body
        view == TxView(r)
        found == {i \in MedIds : /\ view[i].live
                                 /\ view[i].clinic = ClinicName(b.toClinic)}
        first == CHOOSE i \in found : \A j \in found : i <= j
    IN  /\ Running(p, "transfer", "findTo")
        /\ IF found # {}
           THEN Go(p, [r EXCEPT !.pc = "saveTo", !.toId = first,
                                !.newMed = [view[first] EXCEPT !.quantity = @ + b.quantity]])
           ELSE Go(p, [r EXCEPT !.pc = "insertTo",
                                !.newMed = [live |-> TRUE, name |-> r.medicine.name,
                                            clinic |-> ClinicName(b.toClinic),
                                            quantity |-> b.quantity,
                                            purchasePrice |-> r.medicine.purchasePrice]])
        /\ UNCHANGED <<medicines, sales, transfers, medSeq, saleSeq, users>>

\* findOne({ name: medicineName, clinic: toClinicName }).session(session),
\* then the in-memory increment or the new document copied from the source.
TransferFindTo(p) ==
    LET r == procs[p]
        b == r.body
        view == TxView(r)
        found == {i \in MedIds : /\ view[i].live
                                 /\ view[i].name = b.medicineName
                                 /\ view[i].clinic = ClinicName(b.toClinic)}
        first == CHOOSE i \in found : \A j \in found : i <= j
    IN  /\ Running(p, "transfer", "findTo")
        /\ IF found # {}
           THEN Go(p, [r EXCEPT !.pc = "saveTo", !.toId = first,
                                !.newMed = [view[first] EXCEPT !.quantity = @ + b.quantity]])
           ELSE Go(p, [r EXCEPT !.pc = "insertTo",
                                !.newMed = [live |-> TRUE, name |-> r.medicine.name,
                                            clinic |-> ClinicName(b.toClinic),
                                            quantity |-> b.quantity,
                                            purchasePrice |-> r.medicine.purchasePrice]])
        /\ UNCHANGED <<medicines, sales, transfers, medSeq, saleSeq, users>>

\* await toMed.save({ session }) of an existing destination; the storage
\* layer may fail the write.
TransferSaveTo(p) ==
    LET r == procs[p]
    IN  /\ Running(p, "transfer", "saveTo")
        /\ \E fails \in BOOLEAN :
             IF fails \/ ~ValidMedicine(r.newMed) \/ WriteConflict(p, r.toId)
             THEN Go(p, Throw(r))
             ELSE Go(p, [r EXCEPT !.pc = "history", !.writes[r.toId] = r.newMed])
        /\ UNCHANGED <<medicines, sales, transfers, medSeq, saleSeq, users>>

\* (Mutant: the new destination saved without the session.)
TransferInsertToNoSession(p) ==
    LET r == procs[p]
        id == medSeq + 1
    IN  /\ Running(p, "transfer", "insertTo")
        /\ \E fails \in BOOLEAN :
             IF fails \/ ~ValidMedicine(r.newMed)
             THEN Go(p, Throw(r)) /\ UNCHANGED <<medSeq, medicines>>
             ELSE /\ Go(p, [r EXCEPT !.pc = "history", !.toId = id])
                  /\ medSeq' = id
                  /\ medicines' = [medicines EXCEPT ![id] = r.newMed]
        /\ UNCHANGED <<sales, transfers, saleSeq, users>>

\* await toMed.save({ session }) of a new destination document.
TransferInsertTo(p) ==
    LET r == procs[p]
        id == medSeq + 1
    IN  /\ Running(p, "transfer", "insertTo")
        /\ \E fails \in BOOLEAN :
             IF fails \/ ~ValidMedicine(r.newMed)
             THEN Go(p, Throw(r)) /\ UNCHANGED medSeq
             ELSE /\ Go(p, [r EXCEPT !.pc = "history", !.toId = id,
                                     !.writes[id] = r.newMed])
                  /\ medSeq' = id
        /\ UNCHANGED <<medicines, sales, transfers, saleSeq, users>>

\* await TransferHistory.create([...], { session })
TransferHistoryCreate(p) ==
    LET r == procs[p]
    IN  /\ Running(p, "transfer", "history")
        /\ \E fails \in BOOLEAN :
             IF fails THEN Go(p, Throw(r)) ELSE Go(p, [r EXCEPT !.pc = "commit"])
        /\ UNCHANGED <<medicines, sales, transfers, medSeq, saleSeq, users>>

\* (Mutant: the record keeps the labels as the request sent them.)
TransferRecordRaw(r) ==
    [medicineName |-> r.medicine.name, quantity |-> r.body.quantity,
     fromClinic |-> r.body.fromClinic, toClinic |-> r.body.toClinic]

\* The TransferHistory document the transaction inserts.
TransferRecord(r) ==
    [medicineName |-> r.medicine.name, quantity |-> r.body.quantity,
     fromClinic |-> ClinicName(r.body.fromClinic),
     toClinic |-> ClinicName(r.body.toClinic)]

\* The transaction's writes become visible, all at once.
ApplyWrites(r) ==
    /\ medicines' = [i \in MedIds |-> IF r.writes[i].live THEN r.writes[i]
                                      ELSE medicines[i]]
    /\ transfers' = Append(transfers, TransferRecord(r))

\* await session.commitTransaction(); 200.  When the commit fails, the catch
\* block's abortTransaction is refused by the driver (a commit was already
\* called on the session) and its error is handled by nobody.
TransferCommit(p) ==
    LET r == procs[p]
    IN  /\ Running(p, "transfer", "commit")
        /\ \E fails \in BOOLEAN :
             IF fails
             THEN /\ UNCHANGED <<medicines, transfers>>
                  /\ Go(p, [r EXCEPT !.pc = "crashed", !.tx = "commitFailed"])
             ELSE /\ ApplyWrites(r)
                  /\ End(p, [r EXCEPT !.tx = "committed"], 200)
        /\ UNCHANGED <<sales, medSeq, saleSeq, users>>

\* catch: await session.abortTransaction(); 400
TransferAbort(p) ==
    LET r == procs[p]
    IN  /\ Running(p, "transfer", "abort")
        /\ End(p, [r EXCEPT !.tx = "aborted"], 400)
        /\ UNCHANGED <<medicines, sales, transfers, medSeq, saleSeq, users>>

\* --------------------- PUT / DELETE /api/medicines/transfer/history/:id
\* The record after findByIdAndUpdate: the fields the body carries are set.
UpdatedRecord(rec, b) ==
    [rec EXCEPT !.medicineName = IF b.medicineName = "" THEN @ ELSE b.medicineName,
                !.quantity = IF b.quantity = NaN THEN @ ELSE b.quantity,
                !.fromClinic = IF b.fromClinic = <<>> THEN @ ELSE b.fromClinic,
                !.toClinic = IF b.toClinic = <<>> THEN @ ELSE b.toClinic]

\* TransferHistory.findByIdAndUpdate and the 404, one atomic operation.
EditTransferRecord(p) ==
    /\ Arrives(p)
    /\ \E k \in ReqTransferIds, qty \in {NaN, MaxQty}, to \in {<<>>, Annotated(ClinicB)} :
         LET b == [NoBody EXCEPT !.transferId = k, !.quantity = qty, !.toClinic = to]
             r == Begin("editTransferRecord", b)
         IN  IF k <= Len(transfers)
             THEN /\ transfers' = [transfers EXCEPT ![k] = UpdatedRecord(@, b)]
                  /\ End(p, r, 200)
             ELSE UNCHANGED transfers /\ End(p, r, 404)
    /\ UNCHANGED <<medicines, sales, medSeq, saleSeq, users>>

\* The history without its k-th record.
Without(seq, k) == SubSeq(seq, 1, k - 1) \o SubSeq(seq, k + 1, Len(seq))

\* (Mutant: deleting the record gives the quantity back to the source.)
DeleteTransferRecordReversing(p) ==
    /\ Arrives(p)
    /\ \E k \in ReqTransferIds :
         LET r == Begin("deleteTransferRecord", [NoBody EXCEPT !.transferId = k])
         IN  IF k <= Len(transfers)
             THEN /\ transfers' = Without(transfers, k)
                  /\ medicines' = [i \in MedIds |->
                        IF /\ medicines[i].live
                           /\ medicines[i].name = transfers[k].medicineName
                           /\ medicines[i].clinic = transfers[k].fromClinic
                        THEN [medicines[i] EXCEPT !.quantity = @ + transfers[k].quantity]
                        ELSE medicines[i]]
                  /\ End(p, r, 200)
             ELSE UNCHANGED <<transfers, medicines>> /\ End(p, r, 404)
    /\ UNCHANGED <<sales, medSeq, saleSeq, users>>

\* TransferHistory.findByIdAndDelete and the 404, one atomic operation.
DeleteTransferRecord(p) ==
    /\ Arrives(p)
    /\ \E k \in ReqTransferIds :
         LET r == Begin("deleteTransferRecord", [NoBody EXCEPT !.transferId = k])
         IN  IF k <= Len(transfers)
             THEN transfers' = Without(transfers, k) /\ End(p, r, 200)
             ELSE UNCHANGED transfers /\ End(p, r, 404)
    /\ UNCHANGED <<medicines, sales, medSeq, saleSeq, users>>

Next ==
    \E p \in Procs :
        \/ RecordSaleStart(p)
        \/ RecordSaleSaveMedicine(p)
        \/ RecordSaleSaveSale(p)
        \/ DeleteSaleStart(p)
        \/ DeleteSaleFindMedicine(p)
        \/ DeleteSaleSaveMedicine(p)
        \/ DeleteSaleDelete(p)
        \/ EditSaleStart(p)
        \/ EditSaleFindMedicine(p)
        \/ EditSaleRestore(p)
        \/ EditSaleFindNew(p)
        \/ EditSaleSaveNew(p)
        \/ EditSaleSaveSame(p)
        \/ EditSaleSaveSale(p)
        \/ DeleteMedicine(p)
        \/ TransferStart(p)
        \/ TransferSaveFrom(p)
        \/ TransferFindTo(p)
        \/ TransferSaveTo(p)
        \/ TransferInsertTo(p)
        \/ TransferHistoryCreate(p)
        \/ TransferCommit(p)
        \/ TransferAbort(p)
        \/ EditTransferRecord(p)
        \/ DeleteTransferRecord(p)

Spec == Init /\ [][Next]_vars

\* The steps that resume a handler after an await.  The event loop runs every
\* continuation whose awaited operation has completed, so a handler that can
\* go on eventually does; nothing obliges a client to send a request.
Continue(p) ==
    \/ RecordSaleSaveMedicine(p)
    \/ RecordSaleSaveSale(p)
    \/ DeleteSaleFindMedicine(p)
    \/ DeleteSaleSaveMedicine(p)
    \/ DeleteSaleDelete(p)
    \/ EditSaleFindMedicine(p)
    \/ EditSaleRestore(p)
    \/ EditSaleFindNew(p)
    \/ EditSaleSaveNew(p)
    \/ EditSaleSaveSame(p)
    \/ EditSaleSaveSale(p)
    \/ TransferSaveFrom(p)
    \/ TransferFindTo(p)
    \/ TransferSaveTo(p)
    \/ TransferInsertTo(p)
    \/ TransferHistoryCreate(p)
    \/ TransferCommit(p)
    \/ TransferAbort(p)

FairSpec == Init /\ [][Next]_vars /\ \A p \in Procs : WF_vars(Continue(p))

\* ===================================================== the read-only routes
\* GET /api/sales/analytics, /monthly-analytics, /today, /by-date, /by-month
\* and /stats, served against a store drawn from the inputs below.  Here a
\* name or a clinic is the sequence of its characters, a sale carries its
\* clinic, its seller and the day it was sold, and a purchasePrice may be
\* null.

DaysPerMonth == 2    \* days in a month of the calendar the windows are cut from

\* purchasePrice null or undefined
Null == -1000
\* a query parameter that is absent
NoDay == NoId

\* ---- String.prototype.toLowerCase, trim, startsWith
LowerChar(c) ==
    CASE c = "P" -> "p" [] c = "A" -> "a" [] c = "B" -> "b" [] c = "O" -> "o"
      [] OTHER -> c
Lower(s) == [i \in 1..Len(s) |-> LowerChar(s[i])]

IsSpace(c) == c = " "
RECURSIVE TrimLeft(_)
TrimLeft(s) == IF s # <<>> /\ IsSpace(Head(s)) THEN TrimLeft(Tail(s)) ELSE s
RECURSIVE TrimRight(_)
TrimRight(s) ==
    IF s # <<>> /\ IsSpace(s[Len(s)]) THEN TrimRight(SubSeq(s, 1, Len(s) - 1)) ELSE s
Trim(s) == TrimRight(TrimLeft(s))

StartsWith(s, t) == Len(t) <= Len(s) /\ SubSeq(s, 1, Len(t)) = t

\* ---- key.replace(/\s+(new|old|latest|updated)\s*$/i, '').trim()
Quals == { <<"n", "e", "w">>, <<"o", "l", "d">>,
           <<"l", "a", "t", "e", "s", "t">>,
           <<"u", "p", "d", "a", "t", "e", "d">> }
AllSpaces(s) == \A i \in 1..Len(s) : IsSpace(s[i])
\* The pattern matches s from position i to the end.
QualAt(s, i) ==
    \E q \in Quals, k \in 1..Len(s) :
        /\ i + k + Len(q) - 1 <= Len(s)
        /\ AllSpaces(SubSeq(s, i, i + k - 1))
        /\ SubSeq(Lower(s), i + k, i + k + Len(q) - 1) = q
        /\ AllSpaces(SubSeq(s, i + k + Len(q), Len(s)))
StripQual(s) ==
    IF \E i \in 1..Len(s) : QualAt(s, i)
    THEN LET i == CHOOSE i \in 1..Len(s) :
                     QualAt(s, i) /\ \A j \in 1..(i - 1) : ~QualAt(s, j)
         IN  SubSeq(s, 1, i - 1)
    ELSE s
BaseName(key) == Trim(StripQual(key))

\* ---- the keys of a plain object, as Object.values / Object.entries walk
\* them: the integer-like keys in ascending numeric order, then the other
\* keys in the order they were inserted.
Digits == <<"0", "1", "2", "3", "4", "5", "6", "7", "8", "9">>
IsDigit(c) == \E i \in 1..Len(Digits) : Digits[i] = c
DigitValue(c) == (CHOOSE i \in 1..Len(Digits) : Digits[i] = c) - 1
IsIndex(k) ==
    /\ k # <<>>
    /\ \A i \in 1..Len(k) : IsDigit(k[i])
    /\ Len(k) = 1 \/ k[1] # "0"
RECURSIVE IndexValue(_)
IndexValue(k) ==
    IF k = <<>> THEN 0
    ELSE Len(Digits) * IndexValue(SubSeq(k, 1, Len(k) - 1)) + DigitValue(k[Len(k)])
RECURSIVE Ascending(_)
Ascending(S) ==
    IF S = {} THEN <<>>
    ELSE LET m == CHOOSE k \in S : \A j \in S : IndexValue(k) <= IndexValue(j)
         IN  <<m>> \o Ascending(S \ {m})
KeyOrder(keys) ==
    Ascending({keys[i] : i \in {j \in 1..Len(keys) : IsIndex(keys[j])}})
      \o SelectSeq(keys, LAMBDA k : ~IsIndex(k))

\* The keys a loop inserts, each at its first occurrence.
RECURSIVE Distinct(_)
Distinct(seq) ==
    IF seq = <<>> THEN <<>>
    ELSE LET rest == Distinct(SubSeq(seq, 1, Len(seq) - 1))
             x == seq[Len(seq)]
         IN  IF \E i \in 1..Len(rest) : rest[i] = x THEN rest ELSE Append(rest, x)

RECURSIVE SumSeq(_)
SumSeq(ns) == IF ns = <<>> THEN 0 ELSE Head(ns) + SumSeq(Tail(ns))

\* ---- the queries
\* Model.find(filter): the stored documents that pass, in store order.
Ids(coll) == [i \in 1..Len(coll) |-> i]
Stored(coll) == {i \in 1..Len(coll) : coll[i].live}
Find(coll, passing) ==
    LET ids == SelectSeq(Ids(coll), LAMBDA i : i \in passing)
    IN  [i \in 1..Len(ids) |-> coll[ids[i]]]

\* .populate('medicine', 'purchasePrice'): the referenced document, or null.
Populated(s) ==
    IF s.medicine \in 1..Len(medicines) /\ medicines[s.medicine].live
    THEN medicines[s.medicine] ELSE NoDoc

\* medicineMap: every medicine under its lower-cased, trimmed name.
MedicineKey(m) == Trim(Lower(m.name))
AllMedicines == Find(medicines, Stored(medicines))
MedicineKeys == Distinct([i \in 1..Len(AllMedicines) |-> MedicineKey(AllMedicines[i])])
MedicineMap(key) == SelectSeq(AllMedicines, LAMBDA m : MedicineKey(m) = key)

\* `matches`: the medicines under the sale's key or, when there are none,
\* under the first key of the map with the same base name.
Matches(s) ==
    LET key == Trim(Lower(s.medicineName))
        exact == MedicineMap(key)
        keys == KeyOrder(MedicineKeys)
        hits == {i \in 1..Len(keys) : BaseName(keys[i]) = BaseName(key)}
    IN  IF exact # <<>> THEN exact
        ELSE IF hits = {} THEN <<>>
        ELSE MedicineMap(keys[CHOOSE i \in hits : \A j \in hits : i <= j])

\* Array.prototype.find
FindFirst(passing) == IF passing = <<>> THEN NoDoc ELSE passing[1]

\* `currentMedicine`: the first match of the sale's clinic, else the first
\* whose clinic starts with the sale's clinic, else the first with a price.
CurrentMedicine(s) ==
    LET ms == Matches(s)
        same == FindFirst(SelectSeq(ms, LAMBDA m : m.clinic = s.clinic))
        prefix == FindFirst(SelectSeq(ms, LAMBDA m : StartsWith(Lower(m.clinic), Lower(s.clinic))))
        priced == FindFirst(SelectSeq(ms, LAMBDA m : m.purchasePrice # Null))
    IN  IF same.live THEN same ELSE IF prefix.live THEN prefix ELSE priced

\* `purchasePrice` of one sale of the loop, Null when none resolves.
PurchasePrice(s) ==
    IF Populated(s).live /\ Populated(s).purchasePrice # Null
    THEN Populated(s).purchasePrice
    ELSE IF s.medicineName # <<>>
         THEN IF CurrentMedicine(s).live /\ CurrentMedicine(s).purchasePrice # Null
              THEN CurrentMedicine(s).purchasePrice
              ELSE Null
         ELSE Null

SaleProfit(s) == (s.rate - PurchasePrice(s)) * s.quantity
Resolved(ss) == SelectSeq(ss, LAMBDA s : PurchasePrice(s) # Null)

TotalSales(ss) == SumSeq([i \in 1..Len(ss) |-> ss[i].quantity])
\* (Mutant: the revenue recomputed from quantity and rate.)
TotalRevenueComputed(ss) == SumSeq([i \in 1..Len(ss) |-> ss[i].quantity * ss[i].rate])
TotalRevenue(ss) == SumSeq([i \in 1..Len(ss) |-> ss[i].total])
TotalProfit(ss) == SumSeq([i \in 1..Len(Resolved(ss)) |-> SaleProfit(Resolved(ss)[i])])

\* (Mutant: a group without any purchase price keeps profit 0.)
GroupOfZero(ss, name) ==
    LET mine == SelectSeq(ss, LAMBDA s : s.medicineName = name)
    IN  [name |-> name, quantity |-> TotalSales(mine), revenue |-> TotalRevenue(mine),
         profit |-> TotalProfit(mine)]
\* medMap[name] once the loop and the null conversion are over.
GroupOf(ss, name) ==
    LET mine == SelectSeq(ss, LAMBDA s : s.medicineName = name)
    IN  [name |-> name, quantity |-> TotalSales(mine), revenue |-> TotalRevenue(mine),
         profit |-> IF Resolved(mine) = <<>> THEN Null ELSE TotalProfit(mine)]

\* Object.values(medMap)
Groups(ss) ==
    LET names == KeyOrder(Distinct([i \in 1..Len(ss) |-> ss[i].medicineName]))
    IN  [i \in 1..Len(names) |-> GroupOf(ss, names[i])]

\* .sort((a, b) => b.quantity - a.quantity): stable, larger quantity first.
RECURSIVE InsertDesc(_, _)
InsertDesc(g, sorted) ==
    IF sorted = <<>> THEN <<g>>
    ELSE IF Head(sorted).quantity >= g.quantity
         THEN <<Head(sorted)>> \o InsertDesc(g, Tail(sorted))
         ELSE <<g>> \o sorted
RECURSIVE SortByQuantity(_)
SortByQuantity(gs) ==
    IF gs = <<>> THEN <<>>
    ELSE InsertDesc(gs[Len(gs)], SortByQuantity(SubSeq(gs, 1, Len(gs) - 1)))

\* .slice(0, 10)
TopLimit == 10
Top(gs) == SubSeq(gs, 1, IF Len(gs) < TopLimit THEN Len(gs) ELSE TopLimit)

\* The body both analytics routes answer with.
Aggregate(ss) ==
    [totalSales |-> TotalSales(ss), totalRevenue |-> TotalRevenue(ss),
     totalProfit |-> TotalProfit(ss),
     topMedicines |-> Top(SortByQuantity(Groups(ss)))]

\* .sort({ soldAt: -1 })
RECURSIVE InsertLatest(_, _)
InsertLatest(s, sorted) ==
    IF sorted = <<>> THEN <<s>>
    ELSE IF Head(sorted).soldAt >= s.soldAt
         THEN <<Head(sorted)>> \o InsertLatest(s, Tail(sorted))
         ELSE <<s>> \o sorted
RECURSIVE LatestFirst(_)
LatestFirst(ss) ==
    IF ss = <<>> THEN <<>>
    ELSE InsertLatest(ss[Len(ss)], LatestFirst(SubSeq(ss, 1, Len(ss) - 1)))

\* The listing routes add the referenced medicine's purchasePrice to a sale.
WithPrice(s) ==
    [sale |-> s,
     purchasePrice |-> IF Populated(s).live THEN Populated(s).purchasePrice ELSE Null]

MonthStart(m) == (m - 1) * DaysPerMonth + 1
MonthEnd(m) == m * DaysPerMonth

\* The filters of the queries: { clinic, soldAt: { $gte, $lte } }.
InWindow(s, clinic, from, to) ==
    /\ s.clinic = clinic
    /\ from = NoDay \/ s.soldAt >= from
    /\ to = NoDay \/ s.soldAt <= to
InMonth(s, clinic, month) ==
    /\ s.clinic = clinic
    /\ s.soldAt >= MonthStart(month)
    /\ s.soldAt <= MonthEnd(month)
OnDay(s, clinic, day) == s.clinic = clinic /\ s.soldAt = day

\* ---- inputs
ClinicA2 == <<"a", "2">>
Pa == <<"P", "a">>
PaPadded == <<"p", "a", " ">>
PaNew == <<"P", "a", " ", "n", "e", "w">>
PaOld == <<"P", "a", " ", "O", "l", "d">>
Two == <<"2">>
Days == 1..(DaysPerMonth + 1)
Months == {1, 2}
Sellers == {"u1", "u2"}

Med(n, c, price) == [live |-> TRUE, name |-> n, clinic |-> c, quantity |-> 1,
                     purchasePrice |-> price]
SaleDoc(m, n, c, q, r, t, d, by) ==
    [live |-> TRUE, medicine |-> m, medicineName |-> n, clinic |-> c, quantity |-> q,
     rate |-> r, total |-> t, soldAt |-> d, soldBy |-> by]

\* A store of two medicines and two sales at most: medicines of one name in
\* several spellings and clinics, with and without a price; sales whose
\* reference resolves or dangles (medicine 3 is gone), inside and outside a
\* query's window, with a total that is or is not quantity x rate.
FirstMedicines ==
    {NoDoc, Med(Pa, ClinicA, Null), Med(Pa, ClinicA, 1), Med(Pa, ClinicB, 1)}
SecondMedicines ==
    {NoDoc} \cup {Med(n, c, price) : n \in {PaPadded, PaNew}, c \in {ClinicA2, ClinicB},
                                      price \in {Null, 2}}
FirstSalesFound ==
    {SaleDoc(m, Pa, ClinicA, q, 3, 3 * q, 1, "u1") : m \in {1, 3}, q \in {1, 2}}
SecondSalesFound ==
    {NoDoc, SaleDoc(3, Pa, ClinicB, 2, 2, 4, 2, "u2")}
      \cup {SaleDoc(3, n, ClinicA, 2, 2, t, d, "u2") :
               n \in {Pa, PaOld, Two}, t \in {1, 4}, d \in {2, 3}}
SmallStores ==
    {[medicines |-> <<m1, m2>>, sales |-> <<s1, s2>>] :
        m1 \in FirstMedicines, m2 \in SecondMedicines,
        s1 \in FirstSalesFound, s2 \in SecondSalesFound}

\* A store of one sale for each of eleven names, one of them a number, with
\* no medicine left: more groups than the answer lists.  The quantities of
\* the first two and the last three sales vary.
ManyNames == << <<"a">>, <<"b">>, <<"c">>, <<"d">>, <<"e">>, <<"f">>, <<"g">>,
                <<"h">>, <<"i">>, <<"j">>, <<"7">> >>
Varying == {1, 2, Len(ManyNames) - 2, Len(ManyNames) - 1, Len(ManyNames)}
ManyStores ==
    {[medicines |-> <<NoDoc, NoDoc>>,
      sales |-> [i \in 1..Len(ManyNames) |->
                    SaleDoc(3, ManyNames[i], ClinicA,
                            IF i \in Varying THEN qs[i] ELSE 2, 1,
                            IF i \in Varying THEN qs[i] ELSE 2, 1, "u1")]] :
        qs \in [Varying -> {1, 2}]}

Stores == SmallStores \cup ManyStores

\* The history the read-only routes find: two transfers, oldest first.
FoundTransfers ==
    << [medicineName |-> Pa, quantity |-> 1, fromClinic |-> ClinicA, toClinic |-> ClinicB],
       [medicineName |-> Pa, quantity |-> 2, fromClinic |-> ClinicB, toClinic |-> ClinicA2] >>

\* The users registered: none, an admin and a worker, two workers of a
\* clinic, or a worker of a clinic whose name carries a parenthesis of its own.
ClinicBNorth == <<"B", " ", "(", "n", ")">>
UserDoc(name, email, role, clinic) ==
    [name |-> name, email |-> email, role |-> role, clinic |-> clinic]
Worker(name, clinic) == UserDoc(name, name \o <<"@">>, "worker", clinic)
UserLists ==
    { <<>>,
      <<UserDoc(<<"a">>, <<"a", "@">>, "admin", ClinicB), Worker(<<"w">>, ClinicA)>>,
      <<Worker(<<"w">>, ClinicA), Worker(<<"v">>, ClinicA)>>,
      <<Worker(<<"w">>, ClinicBNorth)>> }

\* The stores whose directory is read with workers registered.
DirectoryStores ==
    {st \in SmallStores : st.sales = <<SaleDoc(1, Pa, ClinicA, 1, 3, 3, 1, "u1"), NoDoc>>}

AnalyticsInit ==
    /\ \E st \in Stores, us \in UserLists :
         /\ us # <<>> => st \in DirectoryStores
         /\ medicines = st.medicines /\ sales = st.sales
         /\ users = us
    /\ transfers = FoundTransfers
    /\ medSeq = Len(medicines)
    /\ saleSeq = Len(sales)
    /\ procs = [p \in Procs |-> IdleProc]

\* ---- handlers: each reads, answers, and writes nothing
\* The store is queried once in a run.
Fresh(p) == Arrives(p) /\ \A q \in Procs : procs[q].pc = "idle"

Reply(op, query, status, result) ==
    [op |-> op, pc |-> "done", status |-> status, query |-> query, result |-> result,
     pre |-> Snapshot, before |-> {}, ovl |-> {}]

NoQuery == [clinic |-> <<>>, from |-> NoDay, to |-> NoDay, month |-> NoDay,
            date |-> NoDay, today |-> NoDay, soldBy |-> ""]

Answer(p, rec) ==
    /\ procs' = [procs EXCEPT ![p] = rec]
    /\ UNCHANGED <<medicines, sales, transfers, medSeq, saleSeq, users>>

\* GET /analytics?clinic&from&to
Analytics(p) ==
    /\ Fresh(p)
    /\ \E from \in {NoDay, 2}, to \in {NoDay, 2} :
         LET q == [NoQuery EXCEPT !.clinic = ClinicA, !.from = from, !.to = to]
             found == Find(sales, {i \in Stored(sales) : InWindow(sales[i], q.clinic, from, to)})
         IN  Answer(p, Reply("analytics", q, 200, Aggregate(found)))

\* GET /monthly-analytics?clinic&month
MonthlyAnalytics(p) ==
    /\ Fresh(p)
    /\ \E clinic \in {<<>>, ClinicA}, month \in Months :
         LET q == [NoQuery EXCEPT !.clinic = clinic, !.month = month]
             found == Find(sales, {i \in Stored(sales) : InMonth(sales[i], clinic, month)})
         IN  IF clinic = <<>> THEN Answer(p, Reply("monthlyAnalytics", q, 400, <<>>))
             ELSE Answer(p, Reply("monthlyAnalytics", q, 200, Aggregate(found)))

\* GET /today?clinic
SalesToday(p) ==
    /\ Fresh(p)
    /\ \E today \in Days :
         LET q == [NoQuery EXCEPT !.clinic = ClinicA, !.today = today]
             found == Find(sales, {i \in Stored(sales) : OnDay(sales[i], q.clinic, today)})
         IN  Answer(p, Reply("salesToday", q, 200, LatestFirst(found)))

\* GET /by-date?clinic&date
SalesByDate(p) ==
    /\ Fresh(p)
    /\ \E clinic \in {<<>>, ClinicA}, date \in Days :
         LET q == [NoQuery EXCEPT !.clinic = clinic, !.date = date]
             found == LatestFirst(Find(sales, {i \in Stored(sales) : OnDay(sales[i], clinic, date)}))
         IN  IF clinic = <<>> THEN Answer(p, Reply("salesByDate", q, 400, <<>>))
             ELSE Answer(p, Reply("salesByDate", q, 200,
                                  [i \in 1..Len(found) |-> WithPrice(found[i])]))

\* GET /by-month?clinic&month
SalesByMonth(p) ==
    /\ Fresh(p)
    /\ \E clinic \in {<<>>, ClinicA}, month \in Months :
         LET q == [NoQuery EXCEPT !.clinic = clinic, !.month = month]
             found == LatestFirst(Find(sales, {i \in Stored(sales) : InMonth(sales[i], clinic, month)}))
         IN  IF clinic = <<>> THEN Answer(p, Reply("salesByMonth", q, 400, <<>>))
             ELSE Answer(p, Reply("salesByMonth", q, 200,
                                  [i \in 1..Len(found) |-> WithPrice(found[i])]))

\* (Mutant: the route removes what it has counted.)
StatsPurging(p) ==
    /\ Fresh(p)
    /\ \E soldBy \in Sellers :
         LET q == [NoQuery EXCEPT !.soldBy = soldBy]
             found == Find(sales, {i \in Stored(sales) : sales[i].soldBy = soldBy})
         IN  /\ procs' = [procs EXCEPT ![p] =
                            Reply("stats", q, 200, [totalSold |-> TotalSales(found),
                                                    totalEarned |-> TotalRevenue(found)])]
             /\ sales' = [i \in 1..Len(sales) |->
                            IF sales[i].live /\ sales[i].soldBy = soldBy THEN NoDoc
                            ELSE sales[i]]
    /\ UNCHANGED <<medicines, transfers, medSeq, saleSeq, users>>

\* GET /stats?soldBy
Stats(p) ==
    /\ Fresh(p)
    /\ \E soldBy \in Sellers :
         LET q == [NoQuery EXCEPT !.soldBy = soldBy]
             found == Find(sales, {i \in Stored(sales) : sales[i].soldBy = soldBy})
         IN  Answer(p, Reply("stats", q, 200, [totalSold |-> TotalSales(found),
                                               totalEarned |-> TotalRevenue(found)]))

\* ---- GET /api/medicines/clinics and GET /api/medicines/transfer/history
\* names.join(', ')
RECURSIVE JoinNames(_)
JoinNames(names) ==
    IF names = <<>> THEN <<>>
    ELSE IF Len(names) = 1 THEN names[1]
    ELSE names[1] \o <<",", " ">> \o JoinNames(Tail(names))

\* clinicWorkers[clinic]: the names of the clinic's workers, in the order found.
ClinicWorkers(found, clinic) ==
    LET of == SelectSeq(found, LAMBDA u : u.clinic = clinic)
    IN  [i \in 1..Len(of) |-> of[i].name]

\* `${clinic} (${workers.join(', ')})`, or the bare name without workers.
ClinicLabel(clinic, workers) ==
    IF workers # <<>> THEN clinic \o <<" ", "(">> \o JoinNames(workers) \o <<")">>
    ELSE clinic

\* Medicine.distinct('clinic')
MedicineClinics ==
    LET found == Find(medicines, Stored(medicines))
    IN  Distinct([i \in 1..Len(found) |-> found[i].clinic])

\* Array.from(new Set([...medicineClinics, ...users.map(u => u.clinic)].filter(Boolean)))
AllClinics(found) ==
    Distinct(SelectSeq(MedicineClinics \o [i \in 1..Len(found) |-> found[i].clinic],
                       LAMBDA c : c # <<>>))

ClinicsWithWorkers(found) ==
    [i \in 1..Len(AllClinics(found)) |->
        ClinicLabel(AllClinics(found)[i], ClinicWorkers(found, AllClinics(found)[i]))]

\* User.find({ role: 'worker', clinic: { $ne: null } }, 'clinic name')
WorkersFound == SelectSeq(users, LAMBDA u : u.role = "worker" /\ u.clinic # <<>>)

\* GET /clinics
ClinicsDirectory(p) ==
    /\ Fresh(p)
    /\ Answer(p, Reply("clinics", [users |-> WorkersFound], 200,
                       ClinicsWithWorkers(WorkersFound)))

\* TransferHistory.find({ $or: [{ fromClinic }, { toClinic }] }).sort({ date: -1 })
HistoryOf(clinic) ==
    LET ids == SelectSeq(Ids(transfers),
                         LAMBDA i : transfers[i].fromClinic = clinic
                                    \/ transfers[i].toClinic = clinic)
    IN  [i \in 1..Len(ids) |-> transfers[ids[Len(ids) + 1 - i]]]

\* GET /transfer/history?clinic, asked with a label of the directory for
\* the clinic at some place of its list, or without one.
TransferHistoryList(p) ==
    /\ Fresh(p)
    /\ \E k \in 0..Len(AllClinics(WorkersFound)) :
         LET label == IF k = 0 THEN <<>> ELSE ClinicsWithWorkers(WorkersFound)[k]
             q == [users |-> WorkersFound,
                   clinic |-> IF k = 0 THEN <<>> ELSE AllClinics(WorkersFound)[k],
                   label |-> label]
             clinic == ClinicName(label)
         IN  IF clinic = <<>> THEN Answer(p, Reply("transferHistory", q, 200, <<>>))
             ELSE Answer(p, Reply("transferHistory", q, 200, HistoryOf(clinic)))

AnalyticsNext ==
    \E p \in Procs :
        \/ Analytics(p)
        \/ MonthlyAnalytics(p)
        \/ SalesToday(p)
        \/ SalesByDate(p)
        \/ SalesByMonth(p)
        \/ Stats(p)
        \/ ClinicsDirectory(p)
        \/ TransferHistoryList(p)

AnalyticsSpec == AnalyticsInit /\ [][AnalyticsNext]_vars

\* ============================================ POST /api/auth/signup
\* What a signup request may carry: a name or none, one of two e-mail
\* addresses, and a role that is absent, of the schema's enum, or not.
SignupNames == {<<>>, <<"n">>}
SignupEmails == {<<"e", "1">>, <<"e", "2">>}
SignupRoles == {"", "admin", "worker", "owner"}

\* The collection a signup finds: empty, or with one worker, or with the admin.
FirstUsers ==
    { <<>>,
      <<UserDoc(<<"w">>, <<"e", "1">>, "worker", ClinicA)>>,
      <<UserDoc(<<"a">>, <<"e", "1">>, "admin", <<>>)>> }

SignupInit ==
    /\ medicines = NoMeds
    /\ sales = NoSales
    /\ transfers = <<>>
    /\ medSeq = 0
    /\ saleSeq = 0
    /\ users \in FirstUsers
    /\ procs = [p \in Procs |-> IdleProc]

\* userSchema: role is one of the enum (name, email, password are present
\* once the handler's guard has passed).
ValidUser(doc) == doc.role \in {"admin", "worker"}

\* User.findOne({ role: 'admin' }) and User.findOne({ email }) find a document.
AdminExists == \E i \in 1..Len(users) : users[i].role = "admin"
EmailExists(email) == \E i \in 1..Len(users) : users[i].email = email

\* The body is destructured and the guard runs; an admin signup then awaits
\* the admin lookup, any other the e-mail lookup.
SignupStart(p) ==
    /\ Arrives(p)
    /\ \E name \in SignupNames, email \in SignupEmails, role \in SignupRoles :
         LET b == [name |-> name, email |-> email, role |-> role, clinic |-> ClinicA]
             r == Begin("signup", b)
         IN  IF name = <<>> \/ role = "" THEN End(p, r, 400)
             ELSE IF role = "admin" THEN Go(p, [r EXCEPT !.pc = "findAdmin"])
             ELSE Go(p, [r EXCEPT !.pc = "findEmail"])
    /\ UNCHANGED <<medicines, sales, transfers, medSeq, saleSeq, users>>

\* await User.findOne({ role: 'admin' }); 400 when one exists.
SignupFindAdmin(p) ==
    LET r == procs[p]
    IN  /\ Running(p, "signup", "findAdmin")
        /\ IF AdminExists THEN End(p, r, 400)
           ELSE Go(p, [r EXCEPT !.pc = "findEmail"])
        /\ UNCHANGED <<medicines, sales, transfers, medSeq, saleSeq, users>>

\* await User.findOne({ email }); 400 when one exists.
SignupFindEmail(p) ==
    LET r == procs[p]
    IN  /\ Running(p, "signup", "findEmail")
        /\ IF EmailExists(r.body.email) THEN End(p, r, 400)
           ELSE Go(p, [r EXCEPT !.pc = "hash"])
        /\ UNCHANGED <<medicines, sales, transfers, medSeq, saleSeq, users>>

\* await bcrypt.hash(password, 10)
SignupHash(p) ==
    LET r == procs[p]
    IN  /\ Running(p, "signup", "hash")
        /\ Go(p, [r EXCEPT !.pc = "save"])
        /\ UNCHANGED <<medicines, sales, transfers, medSeq, saleSeq, users>>

\* await user.save(): validation, the unique index on email, the insertion;
\* 201, or 500 from the catch block.
SignupSave(p) ==
    LET r == procs[p]
        doc == UserDoc(r.body.name, r.body.email, r.body.role, r.body.clinic)
    IN  /\ Running(p, "signup", "save")
        /\ IF ~ValidUser(doc) \/ EmailExists(doc.email)
           THEN UNCHANGED users /\ End(p, r, 500)
           ELSE users' = Append(users, doc) /\ End(p, r, 201)
        /\ UNCHANGED <<medicines, sales, transfers, medSeq, saleSeq>>

SignupNext ==
    \E p \in Procs :
        \/ SignupStart(p)
        \/ SignupFindAdmin(p)
        \/ SignupFindEmail(p)
        \/ SignupHash(p)
        \/ SignupSave(p)

SignupSpec == SignupInit /\ [][SignupNext]_vars

\* ============================================================== properties
\* Request p ran alone: no request was in flight when it arrived, none took
\* a step while it ran, and none has arrived since.
Isolated(p) ==
    /\ procs[p].before = {}
    /\ procs[p].ovl = {}
    /\ \A q \in Procs : q > p => procs[q].pc = "idle"

Answered(p, op, status) ==
    procs[p].op = op /\ procs[p].pc = "done" /\ procs[p].status = status

StoreAsFound(p) ==
    /\ medicines = procs[p].pre.medicines
    /\ sales = procs[p].pre.sales
    /\ transfers = procs[p].pre.transfers
    /\ users = procs[p].pre.users

\* C1: in every reachable state, under every interleaving of record, edit,
\* delete and transfer requests, every stored medicine has quantity >= 0.
C1_StockNeverNegative ==
    \A i \in MedIds : medicines[i].live => medicines[i].quantity >= 0

\* An edit moved a sale to a medicine with too little stock, and the
\* decrement below zero was refused.
C1_Witness ==
    \E p \in Procs :
        /\ Answered(p, "editSale", 500)
        /\ procs[p].newMed.live
        /\ procs[p].newMed.quantity < 0
        /\ procs[p].ovl # {}

\* C2: two concurrent record-sale requests on one medicine that both succeed
\* (with positive quantities, and nothing else running) leave its quantity
\* at the initial quantity minus the two sold quantities.
C2_NoLostUpdate ==
    \A p, q \in Procs :
        ( /\ p < q
          /\ Answered(p, "recordSale", 201) /\ Answered(q, "recordSale", 201)
          /\ procs[p].body.quantity > 0 /\ procs[q].body.quantity > 0
          /\ procs[p].body.medicineId = procs[q].body.medicineId
          /\ procs[p].before = {} /\ procs[p].ovl = {q}
          /\ procs[q].before = {p} /\ procs[q].ovl \subseteq {p}
          /\ \A r \in Procs : r > q => procs[r].pc = "idle" )
        => LET m == procs[p].body.medicineId
           IN  medicines[m].quantity =
                 procs[p].pre.medicines[m].quantity
                   - (procs[p].body.quantity + procs[q].body.quantity)

\* C3: the commit of a transfer of q takes q from the source, adds q to the
\* destination (a new destination starting from 0), and leaves the sum of
\* the two as it was.
C3_TransferConserves ==
    [][ \A p \in Procs :
          ( /\ procs[p].op = "transfer" /\ procs[p].pc = "commit"
            /\ procs'[p].pc = "done" /\ procs'[p].status = 200 )
          => LET src == procs[p].body.medicineId
                 dst == procs[p].toId
                 q == procs[p].body.quantity
                 had == IF medicines[dst].live THEN medicines[dst].quantity ELSE 0
             IN  /\ src # dst
                 /\ medicines'[src].quantity = medicines[src].quantity - q
                 /\ medicines'[dst].live
                 /\ medicines'[dst].quantity = had + q
                 /\ medicines'[src].quantity + medicines'[dst].quantity
                      = medicines[src].quantity + had
                 /\ \A i \in MedIds \ {src, dst} : medicines'[i] = medicines[i] ]_vars

\* A transfer committed although another request ran while it was in flight.
C3_Witness ==
    \E p \in Procs : Answered(p, "transfer", 200) /\ procs[p].ovl # {}

\* C4: a transfer that fails after its transaction started leaves the store
\* as the request found it: no quantity changed, no medicine created, no
\* transfer record added.
C4_FailedTransferChangesNothing ==
    \A p \in Procs :
        ( /\ procs[p].op = "transfer"
          /\ procs[p].tx \in {"aborted", "commitFailed"}
          /\ Isolated(p) )
        => StoreAsFound(p) /\ \A i \in MedIds : medicines[i].live = procs[p].pre.medicines[i].live

\* A transfer was aborted after it had decremented the source and created
\* the destination inside its transaction.
C4_Witness ==
    \E p \in Procs :
        /\ Answered(p, "transfer", 400)
        /\ procs[p].tx = "aborted"
        /\ Isolated(p)
        /\ procs[p].writes[procs[p].body.medicineId].live
        /\ procs[p].toId # NoId
        /\ ~procs[p].pre.medicines[procs[p].toId].live

\* The transfer has saved its source's decrement and has not committed yet.
SourceDecremented(p) ==
    /\ procs[p].op = "transfer"
    /\ procs[p].pc \in {"findTo", "saveTo", "insertTo", "history", "commit"}

\* C5: from a transfer's decrement of its source until its commit, the
\* store every other request reads holds the source as it was before the
\* decrement, and the destination without the increment (or not at all).
C5_NoPartialTransferVisible ==
    \A p \in Procs :
        SourceDecremented(p)
        => LET src == procs[p].body.medicineId
           IN  /\ medicines[src].live
               /\ medicines[src].quantity = procs[p].medicine.quantity + procs[p].body.quantity
               /\ procs[p].pc \in {"history", "commit"} =>
                    IF procs[p].snap[procs[p].toId].live
                    THEN medicines[procs[p].toId].quantity
                           = procs[p].newMed.quantity - procs[p].body.quantity
                    ELSE ~medicines[procs[p].toId].live

\* A sale arrived and read the source after the transfer had decremented it
\* inside its transaction and before the transfer went on.
C5_Witness ==
    \E p, q \in Procs :
        /\ SourceDecremented(p)
        /\ procs[q].op = "recordSale" /\ procs[q].pc = "saveMedicine"
        /\ procs[q].body.medicineId = procs[p].body.medicineId
        /\ procs[q].before = {p} /\ procs[q].ovl = {}

\* C6: a recorded sale that is then deleted, with no other request in
\* between, puts the medicine's quantity back and removes the sale.
C6_RecordThenDelete ==
    \A p, q \in Procs :
        ( /\ q = p + 1
          /\ Answered(p, "recordSale", 201)
          /\ procs[p].before = {} /\ procs[p].ovl = {}
          /\ procs[q].op = "deleteSale" /\ procs[q].pc = "done"
          /\ procs[q].body.saleId = procs[p].saleId
          /\ Isolated(q) )
        => LET m == procs[p].body.medicineId
           IN  /\ procs[q].status = 200
               /\ medicines[m].quantity = procs[p].pre.medicines[m].quantity
               /\ ~sales[procs[p].saleId].live

C6_Witness ==
    \E p, q \in Procs :
        /\ q = p + 1
        /\ Answered(p, "recordSale", 201)
        /\ procs[p].before = {} /\ procs[p].ovl = {}
        /\ procs[p].body.quantity > 0
        /\ Answered(q, "deleteSale", 200)
        /\ procs[q].body.saleId = procs[p].saleId
        /\ Isolated(q)

\* C7: once a record-sale request (of a positive quantity, running alone) is
\* over, either the stock went down by the quantity and a sale with that
\* quantity exists, or the stock is unchanged and no sale was created.
C7_DecrementHasSale ==
    \A p \in Procs :
        ( /\ procs[p].op = "recordSale" /\ procs[p].pc = "done" /\ Isolated(p)
          /\ procs[p].body.quantity > 0 )
        => LET m == procs[p].body.medicineId
               q == procs[p].body.quantity
               was == procs[p].pre.medicines[m]
           IN  \/ /\ was.live
                  /\ medicines[m].quantity = was.quantity - q
                  /\ procs[p].saleId # NoId
                  /\ sales[procs[p].saleId].live
                  /\ sales[procs[p].saleId].quantity = q
               \/ StoreAsFound(p)

\* C8: a sale of more than the stock is answered 400, a sale of an absent
\* medicine 404, and neither changes a quantity or creates a sale.
C8_RejectedSale ==
    \A p \in Procs :
        ( /\ procs[p].op = "recordSale" /\ procs[p].pc = "done" /\ Isolated(p) )
        => LET was == procs[p].pre.medicines[procs[p].body.medicineId]
           IN  /\ ~was.live => procs[p].status = 404
               /\ (was.live /\ procs[p].body.quantity > was.quantity) => procs[p].status = 400
               /\ procs[p].status \in {400, 404} => StoreAsFound(p)

C8_Witness ==
    \E p, q \in Procs :
        /\ Answered(p, "recordSale", 400) /\ Isolated(p)
        /\ Answered(q, "recordSale", 404) /\ q < p

\* The edit names no other medicine and keeps the sale's quantity.
RateOnly(p) ==
    /\ procs[p].pre.sales[procs[p].body.saleId].live
    /\ ~MedicineChanged(procs[p])
    /\ procs[p].body.quantity = procs[p].pre.sales[procs[p].body.saleId].quantity

\* C9: an edit that changes only the rate leaves every medicine's quantity
\* as it was and sets the sale's total to quantity x the new rate.
C9_RateOnlyEdit ==
    \A p \in Procs :
        ( /\ procs[p].op = "editSale" /\ procs[p].pc = "done"
          /\ Isolated(p) /\ RateOnly(p) )
        => LET sid == procs[p].body.saleId
           IN  /\ medicines = procs[p].pre.medicines
               /\ procs[p].status = 200 =>
                    /\ sales[sid].rate = procs[p].body.rate
                    /\ sales[sid].quantity = procs[p].body.quantity
                    /\ sales[sid].total = procs[p].body.quantity * procs[p].body.rate

C9_Witness ==
    \E p \in Procs :
        /\ Answered(p, "editSale", 200) /\ Isolated(p) /\ RateOnly(p)
        /\ procs[p].medicine.live
        /\ procs[p].body.quantity > 0
        /\ procs[p].body.rate # procs[p].pre.sales[procs[p].body.saleId].rate

\* Every sale quantity requested so far is positive.
PositiveQuantities ==
    \A p \in Procs :
        procs[p].op \in {"recordSale", "editSale"} => procs[p].body.quantity > 0

\* C10: every stored sale has total = quantity x rate (here: whenever the
\* requests served so far all carried a positive quantity).
C10_TotalIsProduct ==
    PositiveQuantities =>
        \A i \in SaleIds : sales[i].live => sales[i].total = sales[i].quantity * sales[i].rate

\* C11: an edit that is answered with an error (here: of a positive
\* quantity, running alone) leaves every medicine and the sale as the
\* request found them.
C11_FailedEditChangesNothing ==
    \A p \in Procs :
        ( /\ procs[p].op = "editSale" /\ procs[p].pc = "done"
          /\ procs[p].status \in {404, 500}
          /\ procs[p].body.quantity > 0
          /\ Isolated(p) )
        => StoreAsFound(p)

\* C12: deleting a sale whose medicine is gone answers 200, removes the sale
\* and changes nothing else; deleting an absent sale answers 404 and changes
\* nothing.
C12_DeleteSaleSoftFail ==
    \A p \in Procs :
        ( procs[p].op = "deleteSale" /\ procs[p].pc = "done" /\ Isolated(p) )
        => LET sid == procs[p].body.saleId
               was == procs[p].pre.sales[sid]
           IN  /\ ~was.live => procs[p].status = 404 /\ StoreAsFound(p)
               /\ (was.live /\ ~procs[p].pre.medicines[was.medicine].live) =>
                    /\ procs[p].status = 200
                    /\ ~sales[sid].live
                    /\ \A i \in SaleIds \ {sid} : sales[i] = procs[p].pre.sales[i]
                    /\ medicines = procs[p].pre.medicines
                    /\ transfers = procs[p].pre.transfers

\* The medicine of a sale was deleted, and then the sale.
C12_Witness ==
    \E p \in Procs :
        /\ Answered(p, "deleteSale", 200) /\ Isolated(p)
        /\ procs[p].pre.sales[procs[p].body.saleId].live
        /\ ~procs[p].pre.medicines[procs[p].pre.sales[procs[p].body.saleId].medicine].live

\* The clinic a label names: the label itself, or the label without the
\* worker annotation the clinics endpoint appends.
Clinics == {ClinicA, ClinicB}
LabelOf(label, c) == label = c \/ label = Annotated(c)
Bare(label) == CHOOSE c \in Clinics : LabelOf(label, c)

\* C13: a transfer whose two labels name the same clinic is answered 400
\* without a transaction being started, and nothing is created or changed.
C13_SameClinicRejected ==
    \A p \in Procs :
        ( /\ procs[p].op = "transfer"
          /\ \E c \in Clinics : /\ LabelOf(procs[p].body.fromClinic, c)
                                /\ LabelOf(procs[p].body.toClinic, c) )
        => /\ Answered(p, "transfer", 400)
           /\ procs[p].tx = "none"
           /\ procs[p].writes = NoMeds
           /\ Isolated(p) => StoreAsFound(p)

\* An otherwise valid transfer from "A (w)" to "A" was rejected.
C13_Witness ==
    \E p \in Procs :
        /\ Answered(p, "transfer", 400) /\ Isolated(p)
        /\ procs[p].body.fromClinic = Annotated(ClinicA)
        /\ procs[p].body.toClinic = ClinicA
        /\ procs[p].body.medicineId = 1
        /\ procs[p].body.medicineName = "Panadol"
        /\ procs[p].body.quantity = 1

\* A required field of the transfer is absent from the body.
RequiredMissing(b) ==
    \/ b.fromClinic = Missing \/ b.toClinic = Missing
    \/ b.medicineId = NoId \/ b.medicineName = "" \/ b.quantity = NaN

\* C14: a transfer with a quantity that is not positive, or with a required
\* field missing, is answered 400 and changes nothing.
C14_InvalidTransferRejected ==
    \A p \in Procs :
        ( /\ procs[p].op = "transfer"
          /\ (RequiredMissing(procs[p].body) \/ procs[p].body.quantity <= 0) )
        => /\ Answered(p, "transfer", 400)
           /\ procs[p].tx = "none"
           /\ Isolated(p) => StoreAsFound(p)

\* This step is a request to edit or delete a transfer record, served whole.
TouchesHistory(p) ==
    /\ procs[p].pc = "idle"
    /\ procs'[p].op \in {"editTransferRecord", "deleteTransferRecord"}

\* This step is the successful commit of p's transfer.
Commits(p) ==
    /\ procs[p].op = "transfer" /\ procs[p].pc = "commit"
    /\ procs'[p].pc = "done" /\ procs'[p].status = 200

\* C15: the commit of a transfer appends exactly one record, carrying the
\* two clinic names without annotation, the transferred quantity and the
\* source's name; the source is a medicine of the named source clinic and
\* the destination one of the named destination clinic; no other step of a
\* sale, medicine or transfer request appends or changes a record.
C15_TransferRecordNormalized ==
    [][ /\ \A p \in Procs :
             Commits(p)
             => LET b == procs[p].body
                IN  /\ transfers' = Append(transfers,
                          [medicineName |-> medicines[b.medicineId].name,
                           quantity |-> b.quantity,
                           fromClinic |-> Bare(b.fromClinic),
                           toClinic |-> Bare(b.toClinic)])
                    /\ medicines[b.medicineId].clinic = Bare(b.fromClinic)
                    /\ medicines'[procs[p].toId].clinic = Bare(b.toClinic)
        /\ (\A p \in Procs : ~Commits(p) /\ ~TouchesHistory(p)) => transfers' = transfers ]_vars

\* A transfer between two annotated labels committed after another transfer
\* had failed, and the history holds one record.
C15_Witness ==
    \E p, q \in Procs :
        /\ Answered(q, "transfer", 400) /\ procs[q].tx = "aborted"
        /\ Answered(p, "transfer", 200)
        /\ procs[p].body.fromClinic = Annotated(ClinicA)
        /\ procs[p].body.toClinic = Annotated(ClinicB)
        /\ Len(transfers) = 1

\* ---- the analytics answers
\* Request p was answered by one of the two analytics routes.
Aggregated(p) ==
    procs[p].op \in {"analytics", "monthlyAnalytics"} /\ procs[p].status = 200

\* The stored sales inside the window of p's query.
Seen(p) ==
    LET q == procs[p].query
    IN  {i \in 1..Len(sales) :
            /\ sales[i].live
            /\ sales[i].clinic = q.clinic
            /\ IF procs[p].op = "analytics"
               THEN /\ q.from # NoDay => sales[i].soldAt >= q.from
                    /\ q.to # NoDay => sales[i].soldAt <= q.to
               ELSE (sales[i].soldAt + DaysPerMonth - 1) \div DaysPerMonth = q.month}

RECURSIVE SumOf(_, _)
SumOf(f, S) ==
    IF S = {} THEN 0
    ELSE LET i == CHOOSE i \in S : TRUE IN f[i] + SumOf(f, S \ {i})

Named(S, name) == {i \in S : sales[i].medicineName = name}
Priced(S) == {i \in S : PurchasePrice(sales[i]) # Null}
ProfitOf(S) ==
    SumOf([i \in S |-> (sales[i].rate - PurchasePrice(sales[i])) * sales[i].quantity], S)
QuantityOf(S) == SumOf([i \in S |-> sales[i].quantity], S)
RevenueOf(S) == SumOf([i \in S |-> sales[i].total], S)

\* C16: a listed group none of whose sales has a purchase price has profit
\* null, any other group the sum of its priced sales' profits; totalProfit
\* is the sum of (rate - purchasePrice) x quantity over the priced sales of
\* the window, while totalSales and totalRevenue count every sale of it.
C16_ProfitNullSafety ==
    \A p \in Procs :
        Aggregated(p)
        => LET res == procs[p].result
               top == res.topMedicines
           IN  /\ res.totalProfit = ProfitOf(Priced(Seen(p)))
               /\ res.totalSales = QuantityOf(Seen(p))
               /\ res.totalRevenue = RevenueOf(Seen(p))
               /\ \A k \in 1..Len(top) :
                     LET mine == Priced(Named(Seen(p), top[k].name))
                     IN  top[k].profit = IF mine = {} THEN Null ELSE ProfitOf(mine)

\* The window held a sale with a purchase price and one without, and the
\* answer lists a group with a profit and a group with none.
C16_Witness ==
    \E p \in Procs :
        /\ Aggregated(p)
        /\ Priced(Seen(p)) # {}
        /\ Priced(Seen(p)) # Seen(p)
        /\ \E k, l \in 1..Len(procs[p].result.topMedicines) :
              /\ procs[p].result.topMedicines[k].profit = Null
              /\ procs[p].result.topMedicines[l].profit # Null

\* The medicines that carry the sale's name, lower-cased and trimmed, and a
\* purchase price.
PricedNamesakes(s) ==
    {m \in 1..Len(medicines) :
        /\ medicines[m].live
        /\ Trim(Lower(medicines[m].name)) = Trim(Lower(s.medicineName))
        /\ medicines[m].purchasePrice # Null}

\* C17: when the window holds one sale, its medicine is gone and a medicine
\* of the same name has a purchase price, the profit is (rate - that price)
\* x quantity, the price being that of a namesake of the sale's clinic if
\* one has a price, else of one whose clinic starts with the sale's clinic,
\* else of any namesake with a price.
C17_ProfitResolvesByName ==
    \A p \in Procs :
        ( Aggregated(p) /\ Cardinality(Seen(p)) = 1 )
        => LET s == sales[CHOOSE i \in Seen(p) : TRUE]
               any == PricedNamesakes(s)
               same == {m \in any : medicines[m].clinic = s.clinic}
               prefix == {m \in any : StartsWith(Lower(medicines[m].clinic), Lower(s.clinic))}
               pick == IF same # {} THEN same ELSE IF prefix # {} THEN prefix ELSE any
           IN  ( ~Populated(s).live /\ any # {} )
               => \E m \in pick :
                     LET profit == (s.rate - medicines[m].purchasePrice) * s.quantity
                     IN  /\ procs[p].result.totalProfit = profit
                         /\ procs[p].result.topMedicines[1].profit = profit

\* C18: totalSales is the sum of the quantities and totalRevenue the sum of
\* the stored totals of the sales of the window; the groups have distinct
\* names, each with the sums over the sales of its name, and every name of
\* the window has its group when the names are no more than the answer lists.
C18_TotalsAreSums ==
    \A p \in Procs :
        Aggregated(p)
        => LET res == procs[p].result
               top == res.topMedicines
               names == {sales[i].medicineName : i \in Seen(p)}
           IN  /\ res.totalSales = QuantityOf(Seen(p))
               /\ res.totalRevenue = RevenueOf(Seen(p))
               /\ \A k \in 1..Len(top) :
                     /\ top[k].name \in names
                     /\ top[k].quantity = QuantityOf(Named(Seen(p), top[k].name))
                     /\ top[k].revenue = RevenueOf(Named(Seen(p), top[k].name))
                     /\ \A l \in 1..Len(top) : top[l].name = top[k].name => l = k
               /\ Cardinality(names) <= TopLimit => Len(top) = Cardinality(names)

\* Two sales of one name were in the window, one of them with a stored
\* total that is not quantity x rate.
C18_Witness ==
    \E p \in Procs :
        /\ Aggregated(p)
        /\ \E i, j \in Seen(p) :
              /\ i # j
              /\ sales[i].medicineName = sales[j].medicineName
              /\ sales[j].total # sales[j].quantity * sales[j].rate
        /\ Len(procs[p].result.topMedicines) = 1

\* The first sale of the window that carries the name.
FirstSeen(S, name) == CHOOSE i \in Named(S, name) : \A j \in Named(S, name) : i <= j

\* C19: topMedicines lists at most ten groups, in non-increasing order of
\* quantity, none smaller than a group it leaves out, and groups of equal
\* quantity in the order in which their first sales were found.
C19_TopMedicinesOrder ==
    \A p \in Procs :
        Aggregated(p)
        => LET top == procs[p].result.topMedicines
               names == {sales[i].medicineName : i \in Seen(p)}
               listed == {top[k].name : k \in 1..Len(top)}
           IN  /\ Len(top) <= TopLimit
               /\ \A k \in 1..(Len(top) - 1) : top[k].quantity >= top[k + 1].quantity
               /\ \A n \in names \ listed, k \in 1..Len(top) :
                     top[k].quantity >= QuantityOf(Named(Seen(p), n))
               /\ \A k, l \in 1..Len(top) :
                     (k < l /\ top[k].quantity = top[l].quantity)
                     => FirstSeen(Seen(p), top[k].name) < FirstSeen(Seen(p), top[l].name)

\* C20: a request answered by a read-only route leaves every medicine, sale
\* and transfer record as it found them.
C20_ReadsChangeNothing ==
    \A p \in Procs :
        procs[p].op \in {"analytics", "monthlyAnalytics", "salesToday", "salesByDate",
                         "salesByMonth", "stats"}
        => StoreAsFound(p)

\* The stats route has summed the sales of a seller who sold something.
C20_Witness ==
    \E p \in Procs :
        /\ procs[p].op = "stats" /\ procs[p].status = 200
        /\ procs[p].result.totalSold > 0
        /\ \E i \in 1..Len(sales) : sales[i].live /\ sales[i].soldBy = procs[p].query.soldBy

\* C21: editing or deleting a transfer record changes that record only (an
\* edit keeps it in place, a delete removes it); every medicine and every
\* sale stays as it was, and a request for an absent record changes nothing.
C21_HistoryEditsOnlyHistory ==
    [][ \A p \in Procs :
          TouchesHistory(p)
          => LET k == procs'[p].body.transferId
             IN  /\ medicines' = medicines
                 /\ sales' = sales
                 /\ procs'[p].status = 404 => transfers' = transfers
                 /\ (procs'[p].status = 200 /\ procs'[p].op = "editTransferRecord") =>
                       /\ Len(transfers') = Len(transfers)
                       /\ \A j \in 1..Len(transfers) : j # k => transfers'[j] = transfers[j]
                 /\ (procs'[p].status = 200 /\ procs'[p].op = "deleteTransferRecord") =>
                       /\ Len(transfers') = Len(transfers) - 1
                       /\ \A j \in 1..Len(transfers') :
                             transfers'[j] = transfers[IF j < k THEN j ELSE j + 1] ]_vars

\* The record of a committed transfer was deleted, and the source is still
\* without the quantity the transfer took.
C21_Witness ==
    \E p, q \in Procs :
        /\ Answered(q, "transfer", 200)
        /\ Answered(p, "deleteTransferRecord", 200)
        /\ transfers = <<>>
        /\ medicines[procs[q].body.medicineId].quantity
             = procs[q].pre.medicines[procs[q].body.medicineId].quantity - procs[q].body.quantity

\* C22: every sale in the store has a quantity above zero, whatever sequence
\* of sales was recorded and edited.
C22_SaleQuantityPositive ==
    \A i \in SaleIds : sales[i].live => sales[i].quantity > 0

\* The sale p edits, and the medicine that sale referred to when p arrived.
EditedId(p) == procs[p].body.saleId
OldMedicine(p) == procs[p].pre.sales[EditedId(p)].medicine

\* C23: a successful edit that keeps the sale's medicine (served alone, the
\* medicine present) leaves the medicine at its quantity before the edit plus
\* the sale's old quantity minus the new one, sets the sale's quantity to the
\* new one and changes no other medicine.
C23_EditSameMedicine ==
    \A p \in Procs :
        ( /\ Answered(p, "editSale", 200) /\ Isolated(p)
          /\ ~MedicineChanged(procs[p])
          /\ procs[p].pre.medicines[OldMedicine(p)].live )
        => LET pre == procs[p].pre
               m == OldMedicine(p)
           IN  /\ medicines[m].quantity = pre.medicines[m].quantity
                                          + pre.sales[EditedId(p)].quantity
                                          - procs[p].body.quantity
               /\ sales[EditedId(p)].quantity = procs[p].body.quantity
               /\ sales[EditedId(p)].medicine = m
               /\ \A i \in MedIds \ {m} : medicines[i] = pre.medicines[i]

\* A sale of one unit was edited to two units of the same medicine.
C23_Witness ==
    \E p \in Procs :
        /\ Answered(p, "editSale", 200) /\ Isolated(p)
        /\ ~MedicineChanged(procs[p])
        /\ procs[p].pre.medicines[OldMedicine(p)].live
        /\ procs[p].pre.sales[EditedId(p)].quantity > 0
        /\ procs[p].body.quantity > procs[p].pre.sales[EditedId(p)].quantity

\* C24: a successful edit that names another, existing medicine (served
\* alone) gives the sale's old quantity back to the old medicine, takes the
\* new quantity from the new medicine, makes the sale refer to the new
\* medicine under the name the request carries, and changes no other medicine.
C24_EditOtherMedicine ==
    \A p \in Procs :
        ( /\ Answered(p, "editSale", 200) /\ Isolated(p)
          /\ MedicineChanged(procs[p]) )
        => LET pre == procs[p].pre
               old == OldMedicine(p)
               new == procs[p].body.medicineId
           IN  /\ pre.medicines[new].live
               /\ \A i \in MedIds :
                     medicines[i] =
                        IF i = new
                        THEN [pre.medicines[i] EXCEPT !.quantity = @ - procs[p].body.quantity]
                        ELSE IF i = old /\ pre.medicines[i].live
                        THEN [pre.medicines[i] EXCEPT
                                 !.quantity = @ + pre.sales[EditedId(p)].quantity]
                        ELSE pre.medicines[i]
               /\ sales[EditedId(p)].medicine = new
               /\ sales[EditedId(p)].medicineName = procs[p].body.medicineName
               /\ sales[EditedId(p)].quantity = procs[p].body.quantity

\* A sale of the first medicine was moved to the second, both present.
C24_Witness ==
    \E p \in Procs :
        /\ Answered(p, "editSale", 200) /\ Isolated(p)
        /\ MedicineChanged(procs[p])
        /\ procs[p].pre.medicines[OldMedicine(p)].live
        /\ procs[p].pre.sales[EditedId(p)].quantity > 0
        /\ procs[p].body.quantity > 0
        /\ sales[EditedId(p)].medicineName # procs[p].pre.sales[EditedId(p)].medicineName

\* The medicines that carried the request's medicineName in the destination
\* clinic when transfer p arrived, and those that exist now but did not then.
Destinations(p) ==
    {i \in MedIds : /\ procs[p].pre.medicines[i].live
                    /\ procs[p].pre.medicines[i].name = procs[p].body.medicineName
                    /\ procs[p].pre.medicines[i].clinic = Bare(procs[p].body.toClinic)}
Created(p) ==
    {i \in MedIds : medicines[i].live /\ ~procs[p].pre.medicines[i].live}

\* C25: a successful transfer (served alone) of q either finds a medicine of
\* the requested name in the destination clinic, adds q to it and creates
\* none, or finds none and creates exactly one medicine, of the destination
\* clinic, with quantity q and the source's purchase price; apart from the
\* source and that destination no medicine changes.
C25_DestinationResolution ==
    \A p \in Procs :
        (Answered(p, "transfer", 200) /\ Isolated(p))
        => LET pre == procs[p].pre.medicines
               src == procs[p].body.medicineId
               q == procs[p].body.quantity
           IN  IF Destinations(p) # {}
               THEN /\ Created(p) = {}
                    /\ \E d \in Destinations(p) :
                         /\ medicines[d] = [pre[d] EXCEPT !.quantity = @ + q]
                         /\ \A i \in MedIds \ {d, src} : medicines[i] = pre[i]
               ELSE \E d \in MedIds :
                         /\ Created(p) = {d}
                         /\ medicines[d].clinic = Bare(procs[p].body.toClinic)
                         /\ medicines[d].quantity = q
                         /\ medicines[d].purchasePrice = pre[src].purchasePrice
                         /\ \A i \in MedIds \ {d, src} : medicines[i] = pre[i]

\* One transfer created the destination and a later one, served alone,
\* found it and added to it.
C25_Witness ==
    \E p, q \in Procs :
        /\ p < q
        /\ Answered(p, "transfer", 200) /\ Answered(q, "transfer", 200)
        /\ Isolated(q)
        /\ procs[p].toId \notin FirstMeds
        /\ Destinations(q) = {procs[p].toId}
        /\ medicines[procs[p].toId].quantity = procs[p].body.quantity + procs[q].body.quantity

\* No request is in flight.
Quiescent == \A p \in Procs : procs[p].pc \in {"idle", "done"}

\* The requests so far were sales recorded, edited and deleted, one at a time.
SalesInSequence ==
    \A p \in Procs :
        /\ procs[p].op \in {"none", "recordSale", "editSale", "deleteSale"}
        /\ procs[p].before = {} /\ procs[p].ovl = {}

\* A medicine's quantity plus the quantities of the sales that refer to it.
Ledger(meds, sls, m) ==
    LET S == {i \in SaleIds : sls[i].live /\ sls[i].medicine = m}
    IN  meds[m].quantity + SumOf([i \in S |-> sls[i].quantity], S)

\* C26: in every quiescent state after a sequence of record, edit and delete
\* sale requests (here: one at a time, of positive quantities), a medicine's
\* quantity plus the quantities of the sales referring to it is what it was
\* at the start.
C26_StockLedger ==
    (Quiescent /\ SalesInSequence /\ PositiveQuantities /\ procs[1].op # "none")
    => \A m \in FirstMeds :
          Ledger(medicines, sales, m) = Ledger(procs[1].pre.medicines, procs[1].pre.sales, m)

\* Requests p and q are the only ones so far and both are answered.
OnlyTwo(p, q) ==
    /\ p # q
    /\ procs[p].pc = "done" /\ procs[q].pc = "done"
    /\ procs[p].before \cup procs[p].ovl \subseteq {q}
    /\ procs[q].before \cup procs[q].ovl \subseteq {p}
    /\ \A r \in Procs \ {p, q} : procs[r].pc = "idle"

\* C27: two delete requests for the same sale (of a positive quantity, its
\* medicine present), however they interleave, raise the medicine's quantity
\* by the sale's quantity, once.
C27_RestoredOnce ==
    \A p, q \in Procs :
        ( /\ p < q /\ OnlyTwo(p, q)
          /\ procs[p].op = "deleteSale" /\ procs[q].op = "deleteSale"
          /\ procs[p].body.saleId = procs[q].body.saleId
          /\ procs[p].pre.sales[procs[p].body.saleId].live
          /\ procs[p].pre.sales[procs[p].body.saleId].quantity > 0
          /\ procs[p].pre.medicines[procs[p].pre.sales[procs[p].body.saleId].medicine].live )
        => LET sale == procs[p].pre.sales[procs[p].body.saleId]
           IN  medicines[sale.medicine].quantity
                 = procs[p].pre.medicines[sale.medicine].quantity + sale.quantity

\* C28: a transfer of t and a sale of s from the same medicine that both
\* succeed, however they interleave, leave the medicine at its quantity
\* before the two requests minus s + t.
C28_TransferAndSale ==
    \A p, q \in Procs :
        ( /\ OnlyTwo(p, q)
          /\ Answered(p, "transfer", 200) /\ Answered(q, "recordSale", 201)
          /\ procs[p].body.medicineId = procs[q].body.medicineId
          /\ procs[q].body.quantity > 0 )
        => LET m == procs[p].body.medicineId
               first == IF p < q THEN p ELSE q
           IN  medicines[m].quantity
                 = procs[first].pre.medicines[m].quantity
                     - (procs[p].body.quantity + procs[q].body.quantity)

\* C29: cutting a label of the directory at its first " (" gives back the
\* clinic's name: every label the directory lists yields the clinic it was
\* built for, and the history asked with a clinic's label is that clinic's.
C29_LabelRoundTrip ==
    \A p \in Procs :
        /\ Answered(p, "clinics", 200) =>
              \A i \in 1..Len(procs[p].result) :
                  ClinicName(procs[p].result[i]) = AllClinics(procs[p].query.users)[i]
        /\ (Answered(p, "transferHistory", 200) /\ procs[p].query.label # <<>>) =>
              procs[p].result = HistoryOf(procs[p].query.clinic)

\* C30: every transfer request is eventually answered, and by then the
\* transaction it started, if any, is committed or aborted.
C30_TransferAnswered ==
    \A p \in Procs :
        [](procs[p].op = "transfer"
             => <>(procs[p].pc = "done" /\ procs[p].tx \in {"none", "committed", "aborted"}))

\* The stored users with role admin.
Admins == {i \in 1..Len(users) : users[i].role = "admin"}

\* C31: under every interleaving of signup requests at most one stored user
\* is an admin, and an admin signup that arrived when an admin existed is
\* answered 400 and has created no user.
C31_SingleAdmin ==
    /\ Cardinality(Admins) <= 1
    /\ \A p \in Procs :
          ( /\ procs[p].op = "signup" /\ procs[p].pc = "done"
            /\ procs[p].body.role = "admin" /\ procs[p].body.name # <<>>
            /\ \E i \in 1..Len(procs[p].pre.users) : procs[p].pre.users[i].role = "admin" )
          => /\ procs[p].status = 400
             /\ Isolated(p) => users = procs[p].pre.users
====
